---- MODULE Spec2Model ----
(***************************************************************************)
(* One run of the portfolio analyser script (src/upside.py): OCR lines are *)
(* parsed into holdings, the recommendation sheet is loaded (or the        *)
(* built-in table is used), both are merged, sector allocation and upside  *)
(* are computed, and the client narrative is generated.                    *)
(*                                                                         *)
(* Text is a sequence of one-character strings.  A Python float is held as  *)
(* the exact rational [cls, num, den] of the decimal it was parsed or      *)
(* computed from, with the IEEE specials nan and inf; monetary amounts are *)
(* counted in units of 10^-FracDigits.  Where the rounding of binary64     *)
(* arithmetic decides what the script does, the comparison of a sector's   *)
(* percentage with the concentration limit, the doubles are computed bit   *)
(* for bit (round to nearest, ties to even).                               *)
(***************************************************************************)
EXTENDS Integers, Sequences, FiniteSets, TLC

\* ------------------------------------------------------------------ bounds
MaxLines == 3
FracDigits == 2

RECURSIVE Pow10(_)
Pow10(n) == IF n <= 0 THEN 1 ELSE 10 * Pow10(n - 1)

Unit == Pow10(FracDigits)

\* ------------------------------------------------------------------ floats
Num(n, d) == [cls |-> "finite", num |-> n, den |-> d]
NaN == [cls |-> "nan", num |-> 0, den |-> 1]
Inf == [cls |-> "inf", num |-> 1, den |-> 1]
Zero == Num(0, 1)
NaNStr == "NaN"

IsFinite(x) == x.cls = "finite"

RECURSIVE GCD(_, _)
GCD(a, b) == IF b = 0 THEN a ELSE GCD(b, a % b)

\* the rational n / d (d > 0) in lowest terms
Ratio(n, d) ==
    LET g == GCD(IF n < 0 THEN -n ELSE n, d)
    IN  Num(n \div g, d \div g)

\* a / b on floats as numpy divides them (no exception, inf and nan instead)
FloatDiv(a, b) ==
    IF a.cls = "nan" \/ b.cls = "nan" THEN NaN
    ELSE IF a.cls = "inf" THEN (IF b.cls = "inf" THEN NaN ELSE Inf)
    ELSE IF b.cls = "inf" THEN Zero
    ELSE IF b.num = 0 THEN (IF a.num = 0 THEN NaN ELSE Inf)
    ELSE Ratio(a.num * b.den, a.den * b.num)

\* (x - 1) * 100
MinusOneTimes100(x) ==
    IF IsFinite(x) THEN Ratio((x.num - x.den) * 100, x.den) ELSE x

Times100(x) == IF IsFinite(x) THEN Ratio(x.num * 100, x.den) ELSE x

FloatAdd(a, b) ==
    IF a.cls = "nan" \/ b.cls = "nan" THEN NaN
    ELSE IF a.cls = "inf" \/ b.cls = "inf" THEN Inf
    ELSE LET g == GCD(a.den, b.den)
         IN  Ratio(a.num * (b.den \div g) + b.num * (a.den \div g), (a.den \div g) * b.den)

\* a > b; any comparison with nan is False.  Denominators are positive.
FloatGreater(a, b) ==
    IF a.cls = "nan" \/ b.cls = "nan" THEN FALSE
    ELSE IF a.cls = "inf" THEN b.cls # "inf"
    ELSE IF b.cls = "inf" THEN FALSE
    ELSE a.num * b.den > b.num * a.den

FloatEq(a, b) ==
    /\ IsFinite(a)
    /\ IsFinite(b)
    /\ a.num * b.den = b.num * a.den

\* Series.fillna(v) on one cell
FillNa(x, v) == IF x.cls = "nan" THEN v ELSE x

\* ---------------------------------------------------------------- binary64
\* A positive double is m * 2^e with 2^52 <= m < 2^53.  The significand is
\* held in two limbs of 28 bits, so that every intermediate fits an int.
RECURSIVE Pow2(_)
Pow2(n) == IF n <= 0 THEN 1 ELSE 2 * Pow2(n - 1)

Limb == Pow2(28)

Big(hi, lo) == [hi |-> hi, lo |-> lo]
BigOf(n) == Big(n \div Limb, n % Limb)
BigZero == Big(0, 0)
BigOne == Big(0, 1)
TwoTo52 == Big(Pow2(24), 0)
TwoTo53 == Big(Pow2(25), 0)
TwoTo54 == Big(Pow2(26), 0)

BigGeq(a, b) == a.hi > b.hi \/ (a.hi = b.hi /\ a.lo >= b.lo)
BigAdd(a, b) == Big(a.hi + b.hi + (a.lo + b.lo) \div Limb, (a.lo + b.lo) % Limb)
BigSub(a, b) ==
    IF a.lo >= b.lo THEN Big(a.hi - b.hi, a.lo - b.lo)
    ELSE Big(a.hi - b.hi - 1, a.lo + Limb - b.lo)
BigDouble(a) == BigAdd(a, a)
BigHalve(a) == Big(a.hi \div 2, a.lo \div 2 + (a.hi % 2) * (Limb \div 2))
BigOdd(a) == a.lo % 2 = 1

B64(m, e) == [cls |-> "finite", m |-> m, e |-> e]
B64Zero == B64(BigZero, 0)
B64NaN == [cls |-> "nan", m |-> BigZero, e |-> 0]
B64Inf == [cls |-> "inf", m |-> BigZero, e |-> 0]

\* m * 2^e rounded to 53 bits, ties to even: rb is the last bit shifted out
\* of m so far, st tells whether a bit below it was set
RECURSIVE RoundNearestEven(_, _, _, _)
RoundNearestEven(m, e, rb, st) ==
    IF BigGeq(m, TwoTo53)
    THEN RoundNearestEven(BigHalve(m), e + 1, BigOdd(m), st \/ rb)
    ELSE IF rb /\ (st \/ BigOdd(m))
    THEN (IF BigAdd(m, BigOne) = TwoTo53
          THEN B64(TwoTo52, e + 1)
          ELSE B64(BigAdd(m, BigOne), e))
    ELSE B64(m, e)

\* an exact m * 2^e, m > 0 below 2^53, with its leading bit moved to bit 52
RECURSIVE NormaliseUp(_, _)
NormaliseUp(m, e) ==
    IF BigGeq(m, TwoTo52) THEN B64(m, e) ELSE NormaliseUp(BigDouble(m), e - 1)

\* float(n) for an int 0 <= n < 2^31 (exact)
B64OfInt(n) == IF n = 0 THEN B64Zero ELSE NormaliseUp(BigOf(n), 0)

\* the first 55 bits of the quotient r / d for d <= r < 2 d, appended to q,
\* and whether a remainder is left
RECURSIVE QuotientBits(_, _, _)
QuotientBits(r, d, q) ==
    IF BigGeq(q, TwoTo54) THEN [q |-> q, inexact |-> r # BigZero]
    ELSE IF BigGeq(r, d)
    THEN QuotientBits(BigDouble(BigSub(r, d)), d, BigAdd(BigDouble(q), BigOne))
    ELSE QuotientBits(BigDouble(r), d, BigDouble(q))

\* a / b on doubles that are not negative, as numpy divides
B64Div(a, b) ==
    IF a.cls = "nan" \/ b.cls = "nan" THEN B64NaN
    ELSE IF a.cls = "inf" THEN (IF b.cls = "inf" THEN B64NaN ELSE B64Inf)
    ELSE IF b.cls = "inf" THEN B64Zero
    ELSE IF b.m = BigZero THEN (IF a.m = BigZero THEN B64NaN ELSE B64Inf)
    ELSE IF a.m = BigZero THEN B64Zero
    ELSE LET up == ~BigGeq(a.m, b.m)
             bits == QuotientBits(IF up THEN BigDouble(a.m) ELSE a.m, b.m, BigZero)
         IN  RoundNearestEven(bits.q, a.e - b.e - (IF up THEN 55 ELSE 54), FALSE, bits.inexact)

\* m shifted right by d bits, with the bits shifted out or-ed into st
RECURSIVE ShiftRightSticky(_, _, _)
ShiftRightSticky(m, d, st) ==
    IF d = 0 \/ m = BigZero THEN [m |-> m, st |-> st]
    ELSE ShiftRightSticky(BigHalve(m), d - 1, st \/ BigOdd(m))

BigTimes4(m) == BigDouble(BigDouble(m))

\* a + b on doubles that are not negative
B64Add(a, b) ==
    IF a.cls = "nan" \/ b.cls = "nan" THEN B64NaN
    ELSE IF a.cls = "inf" \/ b.cls = "inf" THEN B64Inf
    ELSE IF a.m = BigZero THEN b
    ELSE IF b.m = BigZero THEN a
    ELSE LET x == IF a.e >= b.e THEN a ELSE b
             y == IF a.e >= b.e THEN b ELSE a
             low == ShiftRightSticky(BigTimes4(y.m), x.e - y.e, FALSE)
         IN  RoundNearestEven(BigAdd(BigTimes4(x.m), low.m), x.e - 2, FALSE, low.st)

\* a * 100 = (16 m + 8 m + m) * 2^(e + 2)
B64Times100(a) ==
    IF a.cls # "finite" \/ a.m = BigZero THEN a
    ELSE LET m8 == BigDouble(BigTimes4(a.m))
         IN  RoundNearestEven(BigAdd(BigAdd(BigDouble(m8), m8), a.m), a.e + 2, FALSE, FALSE)

\* a > b on doubles that are not negative; any comparison with nan is False
B64Greater(a, b) ==
    IF a.cls = "nan" \/ b.cls = "nan" THEN FALSE
    ELSE IF a.cls = "inf" THEN b.cls # "inf"
    ELSE IF b.cls = "inf" THEN FALSE
    ELSE IF a.m = BigZero THEN FALSE
    ELSE IF b.m = BigZero THEN TRUE
    ELSE \/ a.e > b.e
         \/ a.e = b.e /\ a.m # b.m /\ BigGeq(a.m, b.m)

\* ------------------------------------------------------- character classes
UpperChars == {"A", "B", "C", "D", "E", "F", "G", "H", "I", "J", "K", "L", "M",
               "N", "O", "P", "Q", "R", "S", "T", "U", "V", "W", "X", "Y", "Z"}
DigitChars == {"0", "1", "2", "3", "4", "5", "6", "7", "8", "9"}
TickerChars == UpperChars \cup DigitChars
SpaceChars == {" ", "\t"}
MoneyChars == DigitChars \cup {",", "."}

DigitVal(c) ==
    CASE c = "0" -> 0 [] c = "1" -> 1 [] c = "2" -> 2 [] c = "3" -> 3
      [] c = "4" -> 4 [] c = "5" -> 5 [] c = "6" -> 6 [] c = "7" -> 7
      [] c = "8" -> 8 [] c = "9" -> 9

\* ----------------------------------------------------------- str helpers
\* first index >= i whose character is not in S (Len + 1 when none)
RECURSIVE RunEnd(_, _, _)
RunEnd(s, i, S) ==
    IF i > Len(s) THEN i
    ELSE IF s[i] \in S THEN RunEnd(s, i + 1, S) ELSE i

\* last index <= i whose character is not in S (0 when none)
RECURSIVE RunStart(_, _, _)
RunStart(s, i, S) ==
    IF i < 1 THEN i
    ELSE IF s[i] \in S THEN RunStart(s, i - 1, S) ELSE i

\* str.strip()
StrStrip(s) == SubSeq(s, RunEnd(s, 1, SpaceChars), RunStart(s, Len(s), SpaceChars))

\* str.replace('R$', '')
RECURSIVE RemoveRS(_)
RemoveRS(s) ==
    IF Len(s) = 0 THEN <<>>
    ELSE IF Len(s) >= 2 /\ s[1] = "R" /\ s[2] = "$" THEN RemoveRS(SubSeq(s, 3, Len(s)))
    ELSE <<s[1]>> \o RemoveRS(Tail(s))

\* str.replace('.', '').replace(',', '.')
RECURSIVE SwapSeparators(_)
SwapSeparators(s) ==
    IF Len(s) = 0 THEN <<>>
    ELSE IF s[1] = "." THEN SwapSeparators(Tail(s))
    ELSE IF s[1] = "," THEN <<".">> \o SwapSeparators(Tail(s))
    ELSE <<s[1]>> \o SwapSeparators(Tail(s))

RECURSIVE DigitsValue(_)
DigitsValue(s) ==
    IF Len(s) = 0 THEN 0
    ELSE 10 * DigitsValue(SubSeq(s, 1, Len(s) - 1)) + DigitVal(s[Len(s)])

\* float(s) for s made of digits and '.': digits, digits '.' digits*, or
\* '.' digits+ ; anything else is a ValueError.
FloatParses(s) ==
    LET p == RunEnd(s, 1, DigitChars)
        q == RunEnd(s, p + 1, DigitChars)
    IN  \/ Len(s) >= 1 /\ p = Len(s) + 1
        \/ /\ p <= Len(s)
           /\ s[p] = "."
           /\ q = Len(s) + 1
           /\ Len(s) >= 2

\* value of a parsable s, in units of 10^-FracDigits
FloatValue(s) ==
    LET p == RunEnd(s, 1, DigitChars)
        ip == SubSeq(s, 1, p - 1)
        fp == SubSeq(s, p + 1, Len(s))
    IN  DigitsValue(ip) * Unit + DigitsValue(fp) * Pow10(FracDigits - Len(fp))

\* fractional digits a string would need (bounds the inputs)
FracLen(s) ==
    LET t == SwapSeparators(StrStrip(RemoveRS(s)))
        p == RunEnd(t, 1, DigitChars)
    IN  IF FloatParses(t) /\ p <= Len(t) THEN Len(t) - p ELSE 0

\* clean_value on a str (the extractor only passes regex groups)
clean_value(text_value) ==
    LET t == SwapSeparators(StrStrip(RemoveRS(text_value)))
    IN  IF FloatParses(t) THEN Num(FloatValue(t), 1) ELSE Zero

\* ------------------------------------------------------------- line_regex
\* ([A-Z0-9]+)\s+.*\s+(R\$\s*[\d,\.]+)\s+(R\$\s*[\d,\.]+)
NoMatch == [matched |-> FALSE, groups |-> <<>>]

\* R\$\s*[\d,\.]+ at index a: the index after it, or 0
MoneyEnd(s, a) ==
    IF a + 1 <= Len(s) /\ s[a] = "R" /\ s[a + 1] = "$"
    THEN LET b == RunEnd(s, a + 2, SpaceChars)
             c == RunEnd(s, b, MoneyChars)
         IN  IF c > b THEN c ELSE 0
    ELSE 0

\* \s+(R\$\s*[\d,\.]+)\s+(R\$\s*[\d,\.]+) at index e; every quantifier is
\* greedy and each is followed by a character outside its class, so the
\* longest run is the only one that can succeed.
TailMatch(s, e) ==
    LET a == RunEnd(s, e, SpaceChars)
        c == MoneyEnd(s, a)
        d == IF c = 0 THEN 0 ELSE RunEnd(s, c, SpaceChars)
        g == IF c = 0 THEN 0 ELSE MoneyEnd(s, d)
    IN  IF a > e /\ c # 0 /\ d > c /\ g # 0
        THEN [matched |-> TRUE, groups |-> <<SubSeq(s, a, c - 1), SubSeq(s, d, g - 1)>>]
        ELSE NoMatch

\* greedy .* : the largest e in lo..hi at which the tail matches, or 0
RECURSIVE LastTail(_, _, _)
LastTail(s, lo, hi) ==
    IF hi < lo THEN 0
    ELSE IF TailMatch(s, hi).matched THEN hi
    ELSE LastTail(s, lo, hi - 1)

\* the pattern anchored at index i: the ticker run must be followed by
\* whitespace, the first \s+ keeps at least one character
MatchAt(s, i) ==
    LET j == RunEnd(s, i, TickerChars)
        e == IF j > i /\ j <= Len(s) /\ s[j] \in SpaceChars
             THEN LastTail(s, j + 1, Len(s))
             ELSE 0
    IN  IF e # 0
        THEN [matched |-> TRUE, groups |-> <<SubSeq(s, i, j - 1)>> \o TailMatch(s, e).groups]
        ELSE NoMatch

\* leftmost anchor at or after i where the pattern matches, or 0
RECURSIVE SearchFrom(_, _)
SearchFrom(s, i) ==
    IF i > Len(s) THEN 0
    ELSE IF MatchAt(s, i).matched THEN i
    ELSE SearchFrom(s, i + 1)

\* line_regex.search(line)
line_regex_search(line) ==
    LET anchor == SearchFrom(line, 1)
    IN  IF anchor = 0 THEN NoMatch ELSE MatchAt(line, anchor)

\* ------------------------------------------------------------ OCR input
\* Lines the OCR may recognise: well-formed rows, a row whose amounts do not
\* parse, a denylisted ticker and the table header.  A text may repeat a line.
\* The positions of PETR4, VALE3 and XPTO3 are 35%, 34.9% and 30.1% of their
\* sum, R$ 3.385,60.

\* PETR4 10 R$ 5,00 R$ 1.184,96
Line_PETR4 ==
    <<"P", "E", "T", "R", "4", " ", "1", "0", " ", "R", "$", " ", "5", ",", "0", "0", " ", "R", "$", " ", "1", ".", "1", "8", "4", ",", "9", "6">>

\* VALE3 2 R$ 10,00 R$ 1.181,86
Line_VALE3 ==
    <<"V", "A", "L", "E", "3", " ", "2", " ", "R", "$", " ", "1", "0", ",", "0", "0", " ", "R", "$", " ", "1", ".", "1", "8", "1", ",", "8", "6">>

\* XPTO3 1 R$ 4,00 R$ 1.018,78
Line_XPTO3 ==
    <<"X", "P", "T", "O", "3", " ", "1", " ", "R", "$", " ", "4", ",", "0", "0", " ", "R", "$", " ", "1", ".", "0", "1", "8", ",", "7", "8">>

\* ITSA4 1 R$ ,, R$ 1.2,3,4
Line_ITSA4 ==
    <<"I", "T", "S", "A", "4", " ", "1", " ", "R", "$", " ", ",", ",", " ", "R", "$", " ", "1", ".", "2", ",", "3", ",", "4">>

\* BBAS3S 1 R$ 20,00 R$ 50,00
Line_BBAS3S ==
    <<"B", "B", "A", "S", "3", "S", " ", "1", " ", "R", "$", " ", "2", "0", ",", "0", "0", " ", "R", "$", " ", "5", "0", ",", "0", "0">>

\* Ativo Qtd Cotação Posição
Line_Header ==
    <<"A", "t", "i", "v", "o", " ", "Q", "t", "d", " ", "C", "o", "t", "a", "ç", "ã", "o", " ", "P", "o", "s", "i", "ç", "ã", "o">>

\* a text holds its lines by name; LineChars gives a line's characters
LineSet ==
    {"PETR4", "VALE3", "XPTO3", "ITSA4", "BBAS3S", "Header"}

LineChars(name) ==
    CASE name = "PETR4" -> Line_PETR4
      [] name = "VALE3" -> Line_VALE3
      [] name = "XPTO3" -> Line_XPTO3
      [] name = "ITSA4" -> Line_ITSA4
      [] name = "BBAS3S" -> Line_BBAS3S
      [] name = "Header" -> Line_Header

\* every amount of the input fits the modelled precision
LinesFitPrecision ==
    \A l \in LineSet :
        LET m == line_regex_search(LineChars(l))
        IN  m.matched => FracLen(m.groups[2]) <= FracDigits /\ FracLen(m.groups[3]) <= FracDigits

\* texts of at most MaxLines recognised lines
RECURSIVE TextsOfLen(_)
TextsOfLen(n) ==
    IF n = 0 THEN {<<>>}
    ELSE {Append(t, l) : t \in TextsOfLen(n - 1), l \in LineSet}

OcrTexts == UNION {TextsOfLen(n) : n \in 0..MaxLines}

\* an uploaded image: whether PIL and the OCR engine accept it, and the
\* text the OCR returns
Image(opens, text) == [uploaded |-> TRUE, opens |-> opens, text |-> text]

NoImage == [uploaded |-> FALSE, opens |-> FALSE, text |-> <<>>]

ImageFiles == {Image(FALSE, <<>>)} \cup {Image(TRUE, t) : t \in OcrTexts}

\* text.strip().split('\n') on a text given as its lines: an empty text
\* splits into one empty line (the inputs carry no blank outer lines)
StripSplit(text) ==
    IF Len(text) = 0 THEN << <<>> >>
    ELSE [i \in 1..Len(text) |->
            LET l == LineChars(text[i])
            IN  IF i = 1 /\ i = Len(text) THEN StrStrip(l)
                ELSE IF i = 1 THEN SubSeq(l, RunEnd(l, 1, SpaceChars), Len(l))
                ELSE IF i = Len(text) THEN SubSeq(l, 1, RunStart(l, Len(l), SpaceChars))
                ELSE l]

\* ---------------------------------------------------------------- extractor
Denylist ==
    {<<"A", "t", "i", "v", "o">>,
     <<"A", "U", "R", "E", "3", "S">>,
     <<"B", "B", "A", "S", "3", "S">>}

HoldingRow(groups) ==
    [Ticker |-> groups[1],
     Ultima_Cotacao |-> clean_value(groups[2]),
     Posicao |-> clean_value(groups[3])]

\* mutant: the denylist is not consulted
M_ParseLine(portfolio_data, line) ==
    LET match == line_regex_search(line)
    IN  IF match.matched /\ Len(match.groups) = 3
        THEN Append(portfolio_data, HoldingRow(match.groups))
        ELSE portfolio_data

\* one iteration of the for loop over lines
ParseLine(portfolio_data, line) ==
    LET match == line_regex_search(line)
    IN  IF match.matched /\ Len(match.groups) = 3
        THEN IF match.groups[1] \notin Denylist
             THEN Append(portfolio_data, HoldingRow(match.groups))
             ELSE portfolio_data
        ELSE portfolio_data

RECURSIVE ParseLines(_, _, _)
ParseLines(lines, i, portfolio_data) ==
    IF i > Len(lines) THEN portfolio_data
    ELSE ParseLines(lines, i + 1, ParseLine(portfolio_data, lines[i]))

Msg(level, origin) == [level |-> level, origin |-> origin]

\* process_portfolio_image: the table returned and the messages shown.
\* Image.open / image_to_string may raise; the broad except reports it.
process_portfolio_image(img) ==
    IF ~img.opens
    THEN [df |-> <<>>, msgs |-> <<Msg("error", "image_exception")>>]
    ELSE LET portfolio_data == ParseLines(StripSplit(img.text), 1, <<>>)
         IN  IF portfolio_data = <<>>
             THEN [df |-> <<>>, msgs |-> <<Msg("error", "no_portfolio_data")>>]
             ELSE [df |-> portfolio_data, msgs |-> <<>>]

\* ------------------------------------------------------ recommendation data
\* an amount of r reais and c centavos
Reais(r, c) == Num((r * 100 + c) * Pow10(FracDigits - 2), 1)

expected_cols == {"Ticker", "Empresa", "Setor", "Recomendação", "Preço Alvo (R$)"}

RecoRow(t, e, s, r, p) ==
    [Ticker |-> t, Empresa |-> e, Setor |-> s, Recomendacao |-> r, Preco_Alvo |-> p]

\* the dict of lists built in the except branch of the loader
FallbackData ==
    [Ticker |-> <<<<"A", "U", "R", "E", "3">>, <<"B", "B", "A", "S", "3">>,
                <<"B", "B", "D", "C", "4">>, <<"C", "P", "L", "E", "6">>,
                <<"C", "X", "S", "E", "3">>, <<"I", "T", "S", "A", "4">>,
                <<"P", "E", "T", "R", "4">>, <<"P", "R", "I", "O", "3">>,
                <<"V", "A", "L", "E", "3">>, <<"C", "S", "N", "A", "3">>,
                <<"W", "E", "G", "E", "3">>, <<"S", "I", "M", "H", "3">>,
                <<"H", "A", "S", "H", "1", "1">>, <<"I", "V", "V", "B", "1", "1">>>>,
     Empresa |-> <<"Auren Energia", "Banco do Brasil", "Bradesco", "Copel",
                 "Caixa Seguridade", "Itaúsa", "Petrobras", "Prio", "Vale", "CSN",
                 "WEG", "Simpar", "Hashdex Nasdaq Crypto", "iShares S&P 500">>,
     Setor |-> <<"Utilities Elétricas", "Financeiro", "Financeiro",
               "Utilities Elétricas", "Financeiro", "Petróleo e Gás",
               "Petróleo e Gás", "Mineração", "Mineração", "Bens de Capital",
               "Consumo Cíclico", "Ativos Digitais", "Internacional (ETF)">>,
     Recomendacao |-> <<"Compra", "Compra", "Neutro", "Compra", "Compra", "Compra", "Compra",
                      "Compra", "Compra", "Venda", "Neutro", "Compra", "N/A", "N/A">>,
     Preco_Alvo |-> <<Reais(15, 0), Reais(30, 0), Reais(18, 0), Reais(14, 0), Reais(16, 0),
                    Reais(13, 50), Reais(40, 0), Reais(60, 0), Reais(80, 0),
                    Reais(12, 0), Reais(40, 0), Reais(12, 0), Reais(100, 0),
                    Reais(450, 0)>>]

\* pd.DataFrame(dict of lists): all arrays must be of the same length,
\* otherwise ValueError
pd_DataFrame(data) ==
    LET n == Len(data.Ticker)
    IN  IF \A k \in DOMAIN data : Len(data[k]) = n
        THEN [raised |-> FALSE,
              df |-> [i \in 1..n |->
                        RecoRow(data.Ticker[i], data.Empresa[i], data.Setor[i],
                                data.Recomendacao[i], data.Preco_Alvo[i])]]
        ELSE [raised |-> TRUE, df |-> <<>>]

\* sector names in the order Python compares str (code points)
SectorOrder ==
    <<"Ativos Digitais", "Bens de Capital", "Consumo Cíclico",
      "Financeiro", "Internacional (ETF)", "Mineração", "Não Classificado",
      "Petróleo e Gás", "Utilities Elétricas">>

Tk_PETR4 == <<"P", "E", "T", "R", "4">>
Tk_VALE3 == <<"V", "A", "L", "E", "3">>
Tk_BBDC4 == <<"B", "B", "D", "C", "4">>
Tk_ITSA4 == <<"I", "T", "S", "A", "4">>
Tk_PRIO3 == <<"P", "R", "I", "O", "3">>

\* a stock guide that satisfies the loader's contract
RecoGuide ==
    <<RecoRow(Tk_PETR4, "Petrobras", "Petróleo e Gás", "Compra", Reais(40, 0)),
      RecoRow(Tk_VALE3, "Vale", "Mineração", "Compra", Reais(12, 0)),
      RecoRow(Tk_BBDC4, "Bradesco", "Financeiro", "Neutro", Reais(18, 0)),
      RecoRow(Tk_ITSA4, "Itaúsa", "Financeiro", "Compra", Reais(13, 50)),
      RecoRow(Tk_PRIO3, "Prio", "Petróleo e Gás", "Compra", Reais(60, 0))>>

\* a sheet that lists PETR4 twice
RecoDuplicate ==
    <<RecoRow(Tk_PETR4, "Petrobras", "Petróleo e Gás", "Compra", Reais(40, 0)),
      RecoRow(Tk_PETR4, "Petrobras PN", "Utilities Elétricas", "Venda", Reais(4, 0)),
      RecoRow(Tk_VALE3, "Vale", "Mineração", "Neutro", Reais(12, 0))>>

\* a sheet with blank cells (read as NaN)
RecoBlank ==
    <<RecoRow(Tk_PETR4, "Petrobras", NaNStr, "Compra", NaN),
      RecoRow(Tk_VALE3, NaNStr, "Mineração", NaNStr, Reais(8, 0))>>

Excel(readable, sheets, columns, rows) ==
    [uploaded |-> TRUE, readable |-> readable, sheets |-> sheets,
     columns |-> columns, rows |-> rows]

\* no spreadsheet uploaded (the uploader returns None)
NoExcel ==
    [uploaded |-> FALSE, readable |-> FALSE, sheets |-> {}, columns |-> {}, rows |-> <<>>]

\* spreadsheets the user may upload: unreadable, without the sheet, with a
\* column missing, with only the header row, and three readable guides
ExcelFiles ==
    {Excel(FALSE, {}, {}, <<>>),
     Excel(TRUE, {"Plan1"}, expected_cols, RecoGuide),
     Excel(TRUE, {"Recomendações"}, expected_cols \ {"Setor"}, RecoGuide),
     Excel(TRUE, {"Recomendações"}, expected_cols, <<>>),
     Excel(TRUE, {"Recomendações"}, expected_cols \cup {"Obs"}, RecoGuide),
     Excel(TRUE, {"Recomendações", "Plan1"}, expected_cols, RecoDuplicate),
     Excel(TRUE, {"Recomendações"}, expected_cols, RecoBlank)}

\* pd.read_excel(excel_file, sheet_name='Recomendações') raises on an
\* unreadable workbook and on a missing sheet
read_excel_raises(x) == ~x.readable \/ "Recomendações" \notin x.sheets

\* the except branch: report, then build the built-in table
LoaderFallback(msgs) ==
    LET built == pd_DataFrame(FallbackData)
    IN  [raised |-> built.raised,
         df |-> built.df,
         fallback |-> TRUE,
         msgs |-> Append(msgs, Msg("info", "fallback"))]

\* load_recommendations_from_excel
load_recommendations_from_excel(x) ==
    IF read_excel_raises(x)
    THEN LoaderFallback(<<>>)
    ELSE IF ~(\A col \in expected_cols : col \in x.columns)
    THEN LoaderFallback(<<Msg("warning", "missing_columns")>>)
    ELSE [raised |-> FALSE, df |-> x.rows, fallback |-> FALSE, msgs |-> <<>>]

\* ------------------------------------------------------------------- merger
\* mutant: the holdings table is not tested
M_PipelineGuard(portfolio, reco) == reco # <<>>

\* the guard of the analysis block: both tables non-empty
PipelineGuard(portfolio, reco) == portfolio # <<>> /\ reco # <<>>

MergedRow(h, e, s, r, p) ==
    [Ticker |-> h.Ticker, Ultima_Cotacao |-> h.Ultima_Cotacao, Posicao |-> h.Posicao,
     Empresa |-> e, Setor |-> s, Recomendacao |-> r, Preco_Alvo |-> p]

\* rows a holding contributes to a left join: one per matching right row,
\* in the right table's order, or one padded with NaN when none matches
RECURSIVE MatchesOf(_, _, _)
MatchesOf(h, right, j) ==
    IF j > Len(right) THEN <<>>
    ELSE IF right[j].Ticker = h.Ticker
    THEN <<MergedRow(h, right[j].Empresa, right[j].Setor,
                     right[j].Recomendacao, right[j].Preco_Alvo)>>
         \o MatchesOf(h, right, j + 1)
    ELSE MatchesOf(h, right, j + 1)

LeftJoinRows(h, right) ==
    IF MatchesOf(h, right, 1) = <<>>
    THEN <<MergedRow(h, NaNStr, NaNStr, NaNStr, NaN)>>
    ELSE MatchesOf(h, right, 1)

\* pd.merge(left, right, on='Ticker', how='left')
RECURSIVE pd_merge_left(_, _, _)
pd_merge_left(left, right, i) ==
    IF i > Len(left) THEN <<>>
    ELSE LeftJoinRows(left[i], right) \o pd_merge_left(left, right, i + 1)

\* mutant: the missing sector is left as NaN
M_FillSetor(s) == s

\* analysis_df['Setor'].fillna('Não Classificado')
FillSetor(s) == IF s = NaNStr THEN "Não Classificado" ELSE s

\* mutant: no .where(quote > 0, 0)
M_Potencial(preco_alvo, ultima_cotacao) ==
    FillNa(MinusOneTimes100(FloatDiv(preco_alvo, ultima_cotacao)), Zero)

\* ((target / quote) - 1) * 100, then .where(quote > 0, 0), then .fillna(0)
Potencial(preco_alvo, ultima_cotacao) ==
    LET raw == MinusOneTimes100(FloatDiv(preco_alvo, ultima_cotacao))
        guarded == IF FloatGreater(ultima_cotacao, Zero) THEN raw ELSE Zero
    IN  FillNa(guarded, Zero)

AnalysisRow(m) ==
    LET setor == FillSetor(m.Setor)
        preco == FillNa(m.Preco_Alvo, Zero)
    IN  [Ticker |-> m.Ticker, Ultima_Cotacao |-> m.Ultima_Cotacao, Posicao |-> m.Posicao,
         Empresa |-> m.Empresa, Setor |-> setor, Recomendacao |-> m.Recomendacao,
         Preco_Alvo |-> preco, Potencial |-> Potencial(preco, m.Ultima_Cotacao)]

\* the merge step of the script
MergeStep(portfolio, reco) ==
    LET merged == pd_merge_left(portfolio, reco, 1)
    IN  [i \in 1..Len(merged) |-> AnalysisRow(merged[i])]

\* df['Posição (R$)'].sum()
RECURSIVE SumPosicao(_, _)
SumPosicao(df, i) ==
    IF i > Len(df) THEN Zero
    ELSE FloatAdd(df[i].Posicao, SumPosicao(df, i + 1))

IsSetor(df, k) == SelectSeq(df, LAMBDA r : r.Setor = k)

\* df.groupby('Setor')['Posição (R$)'].sum(): one entry per sector present,
\* keys sorted ascending, rows whose key is NaN dropped
RECURSIVE GroupBySetor(_, _)
GroupBySetor(df, k) ==
    IF k > Len(SectorOrder) THEN <<>>
    ELSE IF IsSetor(df, SectorOrder[k]) = <<>> THEN GroupBySetor(df, k + 1)
    ELSE <<[Setor |-> SectorOrder[k], Posicao |-> SumPosicao(IsSetor(df, SectorOrder[k]), 1)]>>
         \o GroupBySetor(df, k + 1)

\* value / total * 100
Percent(value, total) == Times100(FloatDiv(value, total))

\* sector allocation of the merger: grouped, index reset, percentage added
SectorAllocationStep(df) ==
    LET total_portfolio_value == SumPosicao(df, 1)
        grouped == GroupBySetor(df, 1)
    IN  [i \in 1..Len(grouped) |->
            [Setor |-> grouped[i].Setor,
             Posicao |-> grouped[i].Posicao,
             Percentual |-> Percent(grouped[i].Posicao, total_portfolio_value)]]

\* --------------------------------------------------------- per-asset report
NoPeerSectors == {"Não Classificado", "Ativos Digitais", "Internacional (ETF)"}

RECURSIVE PeersOf(_, _, _, _)
PeersOf(reco, setor, ticker, j) ==
    IF j > Len(reco) THEN <<>>
    ELSE IF reco[j].Setor = setor /\ reco[j].Ticker # ticker
    THEN <<reco[j].Ticker>> \o PeersOf(reco, setor, ticker, j + 1)
    ELSE PeersOf(reco, setor, ticker, j + 1)

\* one block of the detail section
ReportBlock(row, reco) ==
    [Ticker |-> row.Ticker,
     Posicao |-> row.Posicao,
     Recomendacao |-> row.Recomendacao,
     potencial_shown |-> ~FloatEq(row.Potencial, Zero) /\ FloatGreater(row.Preco_Alvo, Zero),
     peers |-> IF row.Setor \notin NoPeerSectors
               THEN PeersOf(reco, row.Setor, row.Ticker, 1)
               ELSE <<>>]

ReportStep(df, reco) == [i \in 1..Len(df) |-> ReportBlock(df[i], reco)]

\* ------------------------------------------------------ narrative generator
\* insert index x, which precedes the indices of sorted in the original
\* order, into the descending index sequence sorted (ties keep their order)
RECURSIVE InsertDesc(_, _, _)
InsertDesc(sorted, x, keys) ==
    IF sorted = <<>> THEN <<x>>
    ELSE IF ~FloatGreater(keys[Head(sorted)], keys[x]) THEN <<x>> \o sorted
    ELSE <<Head(sorted)>> \o InsertDesc(Tail(sorted), x, keys)

\* indices of keys in descending order of key
RECURSIVE ArgSortDesc(_, _)
ArgSortDesc(keys, i) ==
    IF i > Len(keys) THEN <<>>
    ELSE InsertDesc(ArgSortDesc(keys, i + 1), i, keys)

Reorder(seq, idx) == [n \in 1..Len(idx) |-> seq[idx[n]]]

\* mutant: the grouped series is left in key order
M_SortValuesDesc(series) == series

\* Series.sort_values(ascending=False) on the summed positions
SortValuesDesc(series) ==
    Reorder(series, ArgSortDesc([i \in 1..Len(series) |-> series[i].Posicao], 1))

\* df.sort_values(by='Potencial (%)', ascending=False)
SortByPotencialDesc(df) ==
    Reorder(df, ArgSortDesc([i \in 1..Len(df) |-> df[i].Potencial], 1))

\* Series.head(3)
Head3(series) == SubSeq(series, 1, IF Len(series) < 3 THEN Len(series) ELSE 3)

ConcentrationLimit == 35

\* sector_percent of the generator: sorted allocation as percentages
SectorPercent(df) ==
    LET total_value == SumPosicao(df, 1)
        sector_allocation == SortValuesDesc(GroupBySetor(df, 1))
    IN  [i \in 1..Len(sector_allocation) |->
            [Setor |-> sector_allocation[i].Setor,
             Posicao |-> sector_allocation[i].Posicao,
             Percentual |-> Percent(sector_allocation[i].Posicao, total_value)]]

\* float(x): the double nearest to the decimal amount x
Binary64Of(x) == B64Div(B64OfInt(x.num), B64OfInt(x.den * Unit))

\* the doubles of column 'Posição (R$)', row by row
RECURSIVE Posicao64(_, _)
Posicao64(df, i) ==
    IF i > Len(df) THEN <<>>
    ELSE <<Binary64Of(df[i].Posicao)>> \o Posicao64(df, i + 1)

\* sum() of the doubles of the rows in keep: added one by one, in row
\* order, starting from 0.0
RECURSIVE Sum64(_, _, _, _)
Sum64(values, keep, i, acc) ==
    IF i > Len(values) THEN acc
    ELSE Sum64(values, keep, i + 1, IF i \in keep THEN B64Add(acc, values[i]) ELSE acc)

\* sector_percent as the doubles the generator computes, in the order of
\* SectorPercent
SectorPercent64(df) ==
    LET values == Posicao64(df, 1)
        total_value == Sum64(values, 1..Len(df), 1, B64Zero)
        sector_allocation == SortValuesDesc(GroupBySetor(df, 1))
    IN  [n \in 1..Len(sector_allocation) |->
            B64Times100(B64Div(
                Sum64(values,
                      {i \in 1..Len(df) : df[i].Setor = sector_allocation[n].Setor},
                      1, B64Zero),
                total_value))]

\* section 1: top three sectors and the concentration remark; iloc0 is
\* top_sectors.iloc[0] as the double it is
SectorSection(top_sectors, iloc0) ==
    <<<<"sector_heading">>>>
    \o [i \in 1..Len(top_sectors) |->
            <<"sector_line", top_sectors[i].Setor, top_sectors[i].Percentual>>]
    \o (IF B64Greater(iloc0, B64OfInt(ConcentrationLimit))
        THEN <<<<"concentration", top_sectors[1].Setor>>>>
        ELSE <<>>)

CompraRows(df) ==
    SortByPotencialDesc(SelectSeq(df, LAMBDA r : r.Recomendacao = "Compra"))

\* mutant: rows without upside are listed too
RECURSIVE M_BuyLines(_, _)
M_BuyLines(compra_df, i) ==
    IF i > Len(compra_df) THEN <<>>
    ELSE (IF ~FloatGreater(Zero, compra_df[i].Potencial)
          THEN <<<<"buy_line", compra_df[i].Ticker, compra_df[i].Setor,
                   compra_df[i].Potencial, compra_df[i].Preco_Alvo>>>>
          ELSE <<>>)
         \o M_BuyLines(compra_df, i + 1)

\* the loop over the sorted buy rows
RECURSIVE BuyLines(_, _)
BuyLines(compra_df, i) ==
    IF i > Len(compra_df) THEN <<>>
    ELSE (IF FloatGreater(compra_df[i].Potencial, Zero)
          THEN <<<<"buy_line", compra_df[i].Ticker, compra_df[i].Setor,
                   compra_df[i].Potencial, compra_df[i].Preco_Alvo>>>>
          ELSE <<>>)
         \o BuyLines(compra_df, i + 1)

\* section 2: buy recommendations
BuySection(df) ==
    LET compra_df == CompraRows(df)
    IN  IF compra_df # <<>>
        THEN <<<<"buy_heading">>>> \o BuyLines(compra_df, 1)
        ELSE <<>>

\* section 3: neutral or sell recommendations
AttentionSection(df) ==
    LET reavaliar_df == SelectSeq(df, LAMBDA r : r.Recomendacao \in {"Neutro", "Venda"})
    IN  IF reavaliar_df # <<>>
        THEN <<<<"attention_heading">>>>
             \o [i \in 1..Len(reavaliar_df) |->
                    <<"attention_line", reavaliar_df[i].Ticker, reavaliar_df[i].Setor,
                      reavaliar_df[i].Recomendacao>>]
        ELSE <<>>

\* generate_recommendation_text: the text as its sequence of parts;
\* top_sectors.iloc[0] raises IndexError on an empty series
generate_recommendation_text(df) ==
    LET top_sectors == Head3(SectorPercent(df))
    IN  IF top_sectors = <<>>
        THEN [raised |-> TRUE, text |-> <<>>]
        ELSE [raised |-> FALSE,
              text |-> <<<<"greeting">>>>
                       \o SectorSection(top_sectors, SectorPercent64(df)[1])
                       \o BuySection(df) \o AttentionSection(df)
                       \o <<<<"next_steps">>>>]

\* ------------------------------------------------------------ state machine
VARIABLES
    image_file,            \* the uploaded image (input)
    excel_file,            \* the uploaded spreadsheet (input)
    pc,                    \* the statement of the script to run next
    portfolio_df,          \* table returned by process_portfolio_image
    reco_df,               \* table returned by load_recommendations_from_excel
    analysis_df,           \* merged table
    sector_allocation,     \* aggregate of the merger
    report,                \* blocks of the detail section
    recommendation_text,   \* parts of the narrative
    messages,              \* st.error / st.warning / st.info calls so far
    exception,             \* exception that ended the run, "none" otherwise
    executed               \* steps of the analysis block that have run

vars ==
    <<image_file, excel_file, pc, portfolio_df, reco_df, analysis_df,
      sector_allocation, report, recommendation_text, messages, exception, executed>>

Init ==
    /\ LinesFitPrecision
    /\ image_file \in ImageFiles \cup {NoImage}
    /\ excel_file \in ExcelFiles \cup {NoExcel}
    /\ pc = "upload"
    /\ portfolio_df = <<>>
    /\ reco_df = <<>>
    /\ analysis_df = <<>>
    /\ sector_allocation = <<>>
    /\ report = <<>>
    /\ recommendation_text = <<>>
    /\ messages = <<>>
    /\ exception = "none"
    /\ executed = {}

\* if image_file and excel_file:
CheckUploads ==
    /\ pc = "upload"
    /\ pc' = IF image_file.uploaded /\ excel_file.uploaded THEN "process_image" ELSE "done"
    /\ UNCHANGED <<image_file, excel_file, portfolio_df, reco_df, analysis_df,
                   sector_allocation, report, recommendation_text, messages,
                   exception, executed>>

\* portfolio_df = process_portfolio_image(image_file)
ProcessPortfolioImage ==
    /\ pc = "process_image"
    /\ LET r == process_portfolio_image(image_file)
       IN  /\ portfolio_df' = r.df
           /\ messages' = messages \o r.msgs
    /\ pc' = "load_reco"
    /\ UNCHANGED <<image_file, excel_file, reco_df, analysis_df, sector_allocation,
                   report, recommendation_text, exception, executed>>

\* reco_df = load_recommendations_from_excel(excel_file)
LoadRecommendations ==
    /\ pc = "load_reco"
    /\ LET r == load_recommendations_from_excel(excel_file)
       IN  /\ messages' = messages \o r.msgs
           /\ IF r.raised
              THEN /\ pc' = "raised"
                   /\ exception' = "ValueError"
                   /\ UNCHANGED reco_df
              ELSE /\ pc' = "guard"
                   /\ reco_df' = r.df
                   /\ UNCHANGED exception
    /\ UNCHANGED <<image_file, excel_file, portfolio_df, analysis_df, sector_allocation,
                   report, recommendation_text, executed>>

\* the merge and the upside computation
MergeAnalysis ==
    /\ pc = "guard"
    /\ PipelineGuard(portfolio_df, reco_df)
    /\ analysis_df' = MergeStep(portfolio_df, reco_df)
    /\ executed' = executed \cup {"merge"}
    /\ pc' = "sector_allocation"
    /\ UNCHANGED <<image_file, excel_file, portfolio_df, reco_df, sector_allocation,
                   report, recommendation_text, messages, exception>>

\* the guard fails: nothing of the analysis block runs
SkipAnalysis ==
    /\ pc = "guard"
    /\ ~PipelineGuard(portfolio_df, reco_df)
    /\ pc' = "done"
    /\ UNCHANGED <<image_file, excel_file, portfolio_df, reco_df, analysis_df,
                   sector_allocation, report, recommendation_text, messages,
                   exception, executed>>

SectorAllocation ==
    /\ pc = "sector_allocation"
    /\ sector_allocation' = SectorAllocationStep(analysis_df)
    /\ executed' = executed \cup {"sector_allocation"}
    /\ pc' = "report"
    /\ UNCHANGED <<image_file, excel_file, portfolio_df, reco_df, analysis_df,
                   report, recommendation_text, messages, exception>>

Report ==
    /\ pc = "report"
    /\ report' = ReportStep(analysis_df, reco_df)
    /\ executed' = executed \cup {"report"}
    /\ pc' = "narrative"
    /\ UNCHANGED <<image_file, excel_file, portfolio_df, reco_df, analysis_df,
                   sector_allocation, recommendation_text, messages, exception>>

\* recommendation_text = generate_recommendation_text(analysis_df)
Narrative ==
    /\ pc = "narrative"
    /\ LET r == generate_recommendation_text(analysis_df)
       IN  IF r.raised
           THEN /\ pc' = "raised"
                /\ exception' = "IndexError"
                /\ UNCHANGED recommendation_text
           ELSE /\ pc' = "done"
                /\ recommendation_text' = r.text
                /\ UNCHANGED exception
    /\ executed' = executed \cup {"narrative"}
    /\ UNCHANGED <<image_file, excel_file, portfolio_df, reco_df, analysis_df,
                   sector_allocation, report, messages>>

Next ==
    \/ CheckUploads
    \/ ProcessPortfolioImage
    \/ LoadRecommendations
    \/ MergeAnalysis
    \/ SkipAnalysis
    \/ SectorAllocation
    \/ Report
    \/ Narrative

Spec == Init /\ [][Next]_vars

\* ------------------------------------------------------------ shared terms
AnalysisSteps == {"merge", "sector_allocation", "report", "narrative"}

\* the loader's contract is not met by the uploaded spreadsheet
SpreadsheetFails ==
    \/ ~excel_file.readable
    \/ "Recomendações" \notin excel_file.sheets
    \/ \E col \in expected_cols : col \notin excel_file.columns

\* names of the lines that match the pattern with a ticker off the denylist
AcceptedLines ==
    {l \in LineSet :
        LET m == line_regex_search(LineChars(l))
        IN  m.matched /\ m.groups[1] \notin Denylist}

\* the holding a line stands for
HoldingOf(l) == HoldingRow(line_regex_search(LineChars(l)).groups)

\* positions in the text of the accepted lines
AcceptedAt == {i \in 1..Len(image_file.text) : image_file.text[i] \in AcceptedLines}

\* the extractor has nothing to return: OCR failed or no line is accepted
ExtractionFails == ~image_file.opens \/ AcceptedAt = {}

\* both files were uploaded, so the script calls the two loaders
RunStarted == image_file.uploaded /\ excel_file.uploaded

\* process_portfolio_image has returned
ImageProcessed == RunStarted /\ pc \notin {"upload", "process_image"}

\* load_recommendations_from_excel has been called and is over
LoaderCalled == RunStarted /\ pc \notin {"upload", "process_image", "load_reco"}

RECURSIVE PercentSum(_, _)
PercentSum(alloc, i) ==
    IF i > Len(alloc) THEN Zero
    ELSE FloatAdd(alloc[i].Percentual, PercentSum(alloc, i + 1))

Hundred == Num(100, 1)

TotalValue == SumPosicao(analysis_df, 1)

DescendingByValue(alloc) ==
    \A i \in 1..Len(alloc) : \A j \in 1..Len(alloc) :
        i < j => ~FloatGreater(alloc[j].Posicao, alloc[i].Posicao)

RankOf(setor) == CHOOSE k \in 1..Len(SectorOrder) : SectorOrder[k] = setor

PartsOfKind(kind) == SelectSeq(recommendation_text, LAMBDA x : x[1] = kind)

NarrativeDone == pc = "done" /\ recommendation_text # <<>>

\* ------------------------------------------------------------------ claims

\* C1: whenever the spreadsheet's sheet is missing, the file is unreadable or
\* an expected column is absent, the loader returns the whole built-in table
\* (14 rows, PETR4 and VALE3 among them, none from the file), no exception
\* leaves the loader and the run goes on to the guard of the merge step.
C1_FallbackReturned ==
    (LoaderCalled /\ SpreadsheetFails)
        => /\ exception = "none"
           /\ pc # "raised"
           /\ Len(reco_df) = Len(FallbackData.Ticker)
           /\ \E i \in 1..Len(reco_df) : reco_df[i].Ticker = Tk_PETR4
           /\ \E i \in 1..Len(reco_df) : reco_df[i].Ticker = Tk_VALE3

\* C2: the merged analysis table has exactly as many rows as the holdings
\* table, one per holding and in the holdings' order, also when a ticker
\* appears in more than one recommendation row.
C2_OneRowPerHolding ==
    "merge" \in executed
        => /\ Len(analysis_df) = Len(portfolio_df)
           /\ \A i \in 1..Len(analysis_df) :
                  analysis_df[i].Ticker = portfolio_df[i].Ticker

\* C3 as stated: whenever the analysis step has run, the sector allocation
\* percentages sum to 100, also when every position value is 0.
C3_SumTo100 ==
    "sector_allocation" \in executed
        => FloatEq(PercentSum(sector_allocation, 1), Hundred)

\* C3 amended: whenever the analysis step has run and the total position
\* value is greater than 0, the sector allocation percentages of the merger
\* and of the narrative generator each sum to 100; when the total is 0 every
\* percentage is NaN.
C3_SumTo100WhenPositive ==
    /\ "sector_allocation" \in executed =>
          IF FloatGreater(TotalValue, Zero)
          THEN FloatEq(PercentSum(sector_allocation, 1), Hundred)
          ELSE \A i \in 1..Len(sector_allocation) :
                   sector_allocation[i].Percentual = NaN
    /\ NarrativeDone =>
          IF FloatGreater(TotalValue, Zero)
          THEN FloatEq(PercentSum(SectorPercent(analysis_df), 1), Hundred)
          ELSE \A i \in 1..Len(SectorPercent(analysis_df)) :
                   SectorPercent(analysis_df)[i].Percentual = NaN

\* C3 witness: the analysis ran on a positive total spread over at least two
\* sectors, one of them the sector of a holding without recommendation.
C3_Witness ==
    /\ NarrativeDone
    /\ FloatGreater(TotalValue, Zero)
    /\ Len(sector_allocation) >= 2
    /\ \E i \in 1..Len(sector_allocation) :
           /\ sector_allocation[i].Setor = "Não Classificado"
           /\ FloatGreater(sector_allocation[i].Posicao, Zero)

\* C4: in every analysis row upside_percent equals
\* (target_price / last_quote - 1) * 100 when last_quote > 0 and is 0 when
\* last_quote is 0; a holding without matching recommendation has sector
\* 'Não Classificado' and target_price 0.
C4_Upside ==
    "merge" \in executed =>
        \A i \in 1..Len(analysis_df) :
            LET r == analysis_df[i]
                q == r.Ultima_Cotacao
                t == r.Preco_Alvo
            IN  /\ IsFinite(r.Potencial) /\ IsFinite(t) /\ IsFinite(q)
                /\ q.num > 0 =>
                       r.Potencial.num * q.num * t.den
                           = (t.num * q.den - q.num * t.den) * 100 * r.Potencial.den
                /\ q.num = 0 => r.Potencial.num = 0
                /\ (\A j \in 1..Len(reco_df) : reco_df[j].Ticker # r.Ticker)
                       => r.Setor = "Não Classificado" /\ t.num = 0

\* C4 witness: a merged table with a row quoted at 0 whose target is
\* positive, a row quoted above 0 with a target, and a row without
\* recommendation.
C4_Witness ==
    /\ "merge" \in executed
    /\ \E i \in 1..Len(analysis_df) :
           /\ analysis_df[i].Ultima_Cotacao.num = 0
           /\ analysis_df[i].Preco_Alvo.num > 0
    /\ \E i \in 1..Len(analysis_df) :
           /\ analysis_df[i].Ultima_Cotacao.num > 0
           /\ analysis_df[i].Potencial.num > 0
    /\ \E i \in 1..Len(analysis_df) :
           \A j \in 1..Len(reco_df) : reco_df[j].Ticker # analysis_df[i].Ticker

\* C5: when no line is accepted or image processing raises,
\* process_portfolio_image reports an error and returns an empty table, and
\* in that run the merge, the sector allocation, the per-asset report and
\* the narrative generation are never executed.
C5_ExtractionFailureSkipsAnalysis ==
    (ImageProcessed /\ ExtractionFails)
        => /\ portfolio_df = <<>>
           /\ \E i \in 1..Len(messages) : messages[i].level = "error"
           /\ executed \cap AnalysisSteps = {}
           /\ analysis_df = <<>>
           /\ recommendation_text = <<>>
           /\ exception # "IndexError"

\* C5 witness: a run that ended after the OCR text held lines but none was
\* accepted, with a usable recommendation table loaded.
C5_Witness ==
    /\ pc = "done"
    /\ ExtractionFails
    /\ image_file.opens
    /\ Len(image_file.text) >= 2
    /\ reco_df # <<>>

\* C6 as stated: the merger's sector allocation aggregate lists the sectors
\* in descending order of summed position value.
C6_MergerSortedDescending ==
    "sector_allocation" \in executed => DescendingByValue(sector_allocation)

\* C6 amended: the sector allocation computed by the narrative generator
\* lists the sectors in descending order of summed position value, and so do
\* the sector lines of the text; the merger's aggregate lists them in
\* ascending order of sector name.
C6_GeneratorSortedDescending ==
    /\ NarrativeDone =>
          /\ DescendingByValue(SectorPercent(analysis_df))
          /\ Len(SectorPercent(analysis_df)) = Len(sector_allocation)
          /\ \A n \in 1..Len(PartsOfKind("sector_line")) :
                 PartsOfKind("sector_line")[n][2] = SectorPercent(analysis_df)[n].Setor
    /\ "sector_allocation" \in executed =>
          \A i \in 1..Len(sector_allocation) : \A j \in 1..Len(sector_allocation) :
              i < j => RankOf(sector_allocation[i].Setor) < RankOf(sector_allocation[j].Setor)

\* C6 witness: the narrative was generated for three sectors whose order by
\* name is not their order by value.
C6_Witness ==
    /\ NarrativeDone
    /\ Len(sector_allocation) >= 3
    /\ ~DescendingByValue(sector_allocation)

\* C7: no two rows of one extracted portfolio table carry the same ticker.
C7_UniqueTickers ==
    \A i \in 1..Len(portfolio_df) : \A j \in 1..Len(portfolio_df) :
        i # j => portfolio_df[i].Ticker # portfolio_df[j].Ticker

\* C8: the extracted table holds exactly one row, in line order, for each
\* OCR line that matches the pattern with a ticker off the denylist; other
\* lines add no row and change none.
C8_OneRowPerAcceptedLine ==
    (ImageProcessed /\ image_file.opens)
        => /\ Len(portfolio_df) = Cardinality(AcceptedAt)
           /\ \A i \in AcceptedAt :
                  portfolio_df[Cardinality({k \in AcceptedAt : k <= i})]
                      = HoldingOf(image_file.text[i])

\* C8 witness: a text in which a denylisted or non-matching line stands
\* between two accepted lines was extracted into two rows.
C8_Witness ==
    /\ pc = "load_reco"
    /\ image_file.opens
    /\ Len(portfolio_df) = 2
    /\ \E i \in AcceptedAt : \E k \in AcceptedAt :
           \E j \in 1..Len(image_file.text) :
               i < j /\ j < k /\ image_file.text[j] \in {"BBAS3S", "Header"}

\* sectors of the analysis rows and their summed position values
SectorsPresent == {analysis_df[i].Setor : i \in 1..Len(analysis_df)}

SectorTotal(k) == SumPosicao(IsSetor(analysis_df, k), 1).num

\* the sector's share of the total is strictly above the limit
ShareExceedsLimit(k) == SectorTotal(k) * 100 > ConcentrationLimit * TotalValue.num

PositionsOfKind(kind) ==
    {n \in 1..Len(recommendation_text) : recommendation_text[n][1] = kind}

\* C9: the concentration remark is in the text exactly when the largest
\* sector's share of the total position value is strictly greater than 35%
\* (absent at exactly 35% and below); it names a sector with the largest
\* share; the sector lines before it are the top three sectors (all of them
\* when fewer) in descending order of share, each with its percentage.
C9_ConcentrationRemark ==
    NarrativeDone =>
        LET lines == PartsOfKind("sector_line")
            remark == PartsOfKind("concentration")
            listed == {lines[n][2] : n \in 1..Len(lines)}
        IN  /\ (remark # <<>>) <=> (\E k \in SectorsPresent : ShareExceedsLimit(k))
            /\ Len(remark) <= 1
            /\ remark # <<>> =>
                   /\ remark[1][2] \in SectorsPresent
                   /\ \A k \in SectorsPresent : SectorTotal(k) <= SectorTotal(remark[1][2])
            /\ Len(lines) = IF Cardinality(SectorsPresent) < 3
                            THEN Cardinality(SectorsPresent) ELSE 3
            /\ Cardinality(listed) = Len(lines)
            /\ listed \subseteq SectorsPresent
            /\ \A n \in 1..Len(lines) : \A m \in 1..Len(lines) :
                   n < m => SectorTotal(lines[n][2]) >= SectorTotal(lines[m][2])
            /\ \A k \in SectorsPresent \ listed : \A n \in 1..Len(lines) :
                   SectorTotal(k) <= SectorTotal(lines[n][2])
            /\ \A n \in 1..Len(lines) :
                   IF TotalValue.num > 0
                   THEN lines[n][3] = Ratio(SectorTotal(lines[n][2]) * 100, TotalValue.num)
                   ELSE lines[n][3] = NaN
            /\ \A a \in PositionsOfKind("sector_line") :
                   \A b \in PositionsOfKind("concentration") : a < b

BuyLineOf(r) == <<"buy_line", r.Ticker, r.Setor, r.Potencial, r.Preco_Alvo>>

\* analysis rows recommended as buy, and those of them with positive upside
CompraAt == {i \in 1..Len(analysis_df) : analysis_df[i].Recomendacao = "Compra"}

BuyAt == {i \in CompraAt : analysis_df[i].Potencial.num > 0}

\* C10: the buy block lists exactly the analysis rows recommended 'Compra'
\* whose upside_percent is strictly positive, in descending order of
\* upside_percent; without any 'Compra' row the block and its heading are
\* absent.
C10_BuyBlock ==
    NarrativeDone =>
        LET buys == PartsOfKind("buy_line")
        IN  /\ Len(buys) = Cardinality(BuyAt)
            /\ \A i \in BuyAt :
                   Cardinality({n \in 1..Len(buys) : buys[n] = BuyLineOf(analysis_df[i])})
                       = Cardinality({j \in BuyAt :
                             BuyLineOf(analysis_df[j]) = BuyLineOf(analysis_df[i])})
            /\ \A n \in 1..Len(buys) : \A m \in 1..Len(buys) :
                   n < m => ~FloatGreater(buys[m][4], buys[n][4])
            /\ buys # <<>> => Len(PartsOfKind("buy_heading")) = 1
            /\ \A a \in PositionsOfKind("buy_heading") :
                   \A b \in PositionsOfKind("buy_line") : a < b
            /\ CompraAt = {} => PartsOfKind("buy_heading") = <<>> /\ buys = <<>>

\* C10 witness: two buy rows were listed in the reverse of their table
\* order while a third buy row, without upside, was left out.
C10_Witness ==
    /\ NarrativeDone
    /\ Len(PartsOfKind("buy_line")) = 2
    /\ FloatGreater(PartsOfKind("buy_line")[1][4], PartsOfKind("buy_line")[2][4])
    /\ \E i \in BuyAt : \E j \in BuyAt :
           i < j /\ FloatGreater(analysis_df[j].Potencial, analysis_df[i].Potencial)
    /\ \E i \in CompraAt : analysis_df[i].Potencial.num = 0

====
